---- MODULE Spec2Model ----
(***************************************************************************)
(* Model of ThinkSplit's multi-model request orchestration service         *)
(* (src/src/services/openrouter.ts, class OpenRouterService).              *)
(*                                                                         *)
(* Strings whose characters the code inspects (the API key) are sequences  *)
(* of one-character strings.  JSON values read from a gateway response are *)
(* tagged records, so that JavaScript's truthiness (||) and ToString       *)
(* (new Error(x)) are computed, not assumed.                               *)
(***************************************************************************)
EXTENDS Integers, Sequences, FiniteSets, TLC

(***************************************************************************)
(* Bounds of the model.                                                    *)
(***************************************************************************)
MaxRequested == 2      \* longest request.models list
MaxAttachments == 1    \* longest request.attachments list

(***************************************************************************)
(* Generic helpers.                                                        *)
(***************************************************************************)
Range(s) == {s[i] : i \in DOMAIN s}

SeqsUpTo(S, n) == UNION {[1..k -> S] : k \in 0..n}

Rep(c, n) == [i \in 1..n |-> c]

(***************************************************************************)
(* Model registry: AVAILABLE_MODELS.                                       *)
(***************************************************************************)
AVAILABLE_MODELS ==
  << [id |-> "claude-opus-4.1", apiModel |-> "anthropic/claude-opus-4.1",
      supportsImages |-> TRUE,  supportsNonImageAttachments |-> TRUE],
     [id |-> "grok-4", apiModel |-> "x-ai/grok-4",
      supportsImages |-> TRUE,  supportsNonImageAttachments |-> FALSE],
     [id |-> "gemini-2.5-pro", apiModel |-> "google/gemini-2.5-pro",
      supportsImages |-> TRUE,  supportsNonImageAttachments |-> TRUE],
     [id |-> "codestral-2508", apiModel |-> "mistralai/codestral-2508",
      supportsImages |-> FALSE, supportsNonImageAttachments |-> FALSE] >>

RegistryIds == {AVAILABLE_MODELS[i].id : i \in DOMAIN AVAILABLE_MODELS}

\* an id that is in no registry entry
UnknownId == "gpt-unknown"

RequestableIds == RegistryIds \cup {UnknownId}

\* the endpoint, split into its scheme and the rest
OPENROUTER_BASE_URL == <<"https://", "openrouter.ai/api/v1/chat/completions">>
RATE_LIMIT_DELAY == 1000

(***************************************************************************)
(* Characters and API keys.                                                *)
(***************************************************************************)
LowerCase == {"a","b","c","d","e","f","g","h","i","j","k","l","m",
              "n","o","p","q","r","s","t","u","v","w","x","y","z"}
UpperCase == {"A","B","C","D","E","F","G","H","I","J","K","L","M",
              "N","O","P","Q","R","S","T","U","V","W","X","Y","Z"}
Digits == {"0","1","2","3","4","5","6","7","8","9"}

\* the regular-expression class \w
WordChars == LowerCase \cup UpperCase \cup Digits \cup {"_"}

\* characters String.prototype.trim removes
WhiteSpace == {" "}

KeyPrefix == <<"s","k","-","o","r","-","v","1","-">>

StartsWith(s, p) ==
  /\ Len(s) >= Len(p)
  /\ \A i \in 1..Len(p) : s[i] = p[i]

RECURSIVE TrimLeft(_)
TrimLeft(s) ==
  IF s # <<>> /\ Head(s) \in WhiteSpace THEN TrimLeft(Tail(s)) ELSE s

RECURSIVE TrimRight(_)
TrimRight(s) ==
  IF s # <<>> /\ s[Len(s)] \in WhiteSpace
  THEN TrimRight(SubSeq(s, 1, Len(s) - 1)) ELSE s

Trim(s) == TrimRight(TrimLeft(s))

\* apiKey.replace(/[^\w-]/g, '').trim()
IsKeptBySanitize(c) == c \in WordChars \cup {"-"}
sanitizeApiKey(apiKey) == Trim(SelectSeq(apiKey, IsKeptBySanitize))

\* a check of prefix and length only
validateApiKeyFormatOnly(apiKey) ==
  /\ apiKey # <<>>
  /\ StartsWith(apiKey, KeyPrefix)
  /\ Len(apiKey) > 20
  /\ Len(apiKey) < 200

\* startsWith('sk-or-v1-') && length > 20 && length < 200, /^[a-zA-Z0-9-]+$/
validateApiKey(apiKey) ==
  IF apiKey = <<>> THEN FALSE
  ELSE LET isValidFormat == /\ StartsWith(apiKey, KeyPrefix)
                            /\ Len(apiKey) > 20
                            /\ Len(apiKey) < 200
           hasValidChars == \A i \in 1..Len(apiKey) :
                              apiKey[i] \in LowerCase \cup UpperCase \cup Digits \cup {"-"}
       IN  isValidFormat /\ hasValidChars

\* The credentials a request is tried with.
KeyEmpty      == <<>>
KeyGood       == KeyPrefix \o Rep("a", 16)                \* 25 characters
KeyPadded     == <<" ">> \o KeyPrefix \o Rep("a", 15) \o <<"!">>
KeyUnderscore == KeyPrefix \o Rep("a", 15) \o <<"_">>
KeyShort      == KeyPrefix \o Rep("a", 11)                \* 20 characters
KeyLong       == KeyPrefix \o Rep("a", 191)               \* 200 characters
KeyNoPrefix   == Rep("a", 25)

ApiKeys == {KeyEmpty, KeyGood, KeyPadded, KeyUnderscore, KeyShort, KeyLong,
            KeyNoPrefix}

(***************************************************************************)
(* Attachments.  A file name is the sequence of its dot-separated parts,   *)
(* as fileName.split('.') gives them.                                      *)
(***************************************************************************)
ToLowerCase(part) ==
  CASE part = "PNG" -> "png"
    [] part = "TXT" -> "txt"
    [] OTHER -> part

\* fileName.split('.').pop()?.toLowerCase()
Extension(name) == IF name = <<>> THEN "" ELSE ToLowerCase(name[Len(name)])

getFileType(fileName) ==
  LET extension == Extension(fileName) IN
  IF extension \in {"jpg","jpeg","png","gif","webp","svg","bmp","heic","heif","tiff","tif"}
    THEN "image"
  ELSE IF extension \in {"pdf"} THEN "pdf"
  ELSE IF extension \in {"doc","docx","txt","rtf"} THEN "document"
  ELSE IF extension \in {"mp4","avi","mov","webm","mkv"} THEN "video"
  ELSE IF extension \in {"mp3","wav","ogg","flac"} THEN "audio"
  ELSE IF extension \in {"zip","rar","7z","tar","gz"} THEN "archive"
  ELSE IF extension \in {"json","xml","csv","xlsx","xls"} THEN "data"
  ELSE "file"

\* the Attachment that handleFileSelect builds for a chosen file
NewAttachment(fileName) ==
  [name |-> fileName, type |-> getFileType(fileName), hasFile |-> TRUE]

FileNames == { <<"photo","PNG">>, <<"notes","txt">>, <<"paper","pdf">>,
               <<"clip","mp4">> }

Attachments == {NewAttachment(n) : n \in FileNames}

(***************************************************************************)
(* JavaScript values found in a parsed response body.                      *)
(***************************************************************************)
Undefined  == [t |-> "undefined", s |-> ""]
Str(s)     == [t |-> "string", s |-> s]
EmptyArray == [t |-> "array", s |-> ""]

JsValues == {Undefined, Str(""), Str("rate limited"), EmptyArray}

\* the truthiness that || tests
Truthy(v) == \/ v.t = "array"
             \/ v.t = "string" /\ v.s # ""

\* ToString, as new Error(message) applies it to a defined message
JsToString(v) == IF v.t = "undefined" THEN "undefined" ELSE v.s

(***************************************************************************)
(* What a fetch call can end with.                                         *)
(***************************************************************************)
Reject(isError, message) ==
  [kind |-> "reject", isError |-> isError, message |-> message,
   ok |-> FALSE, status |-> 0, parse |-> "none",
   errorMessage |-> Undefined, content |-> Undefined]

Response(ok, status, parse, errorMessage, content) ==
  [kind |-> "response", isError |-> FALSE, message |-> "",
   ok |-> ok, status |-> status, parse |-> parse,
   errorMessage |-> errorMessage, content |-> content]

\* one outcome of each kind: a completion, a non-2xx response, a network
\* failure and a malformed body
DispatchOutcomes ==
  { Response(TRUE, 200, "object", Undefined, Str("rate limited")),
    Response(FALSE, 429, "object", Str("rate limited"), Undefined),
    Reject(TRUE, "Failed to fetch"),
    Response(TRUE, 200, "syntaxError", Undefined, Undefined) }

FetchOutcomes ==
     {Reject(TRUE, "Failed to fetch"), Reject(TRUE, ""), Reject(FALSE, "")}
  \cup {Response(TRUE, 200, p, Undefined, Undefined) : p \in {"syntaxError", "null"}}
  \cup {Response(TRUE, 200, "object", Undefined, c) : c \in JsValues}
  \cup {Response(FALSE, 429, p, Undefined, Undefined) : p \in {"syntaxError", "null"}}
  \cup {Response(FALSE, 429, "object", m, Undefined) : m \in JsValues}

\* `HTTP ${response.status}: ${response.statusText}`
HttpStatusMessage(status) ==
  CASE status = 429 -> "HTTP 429: Too Many Requests"
    [] OTHER -> "HTTP error"

(***************************************************************************)
(* makeRequest: the LLMResponse it returns (timestamp, tokens and latency  *)
(* left out).  The optional error field is hasError plus error.            *)
(***************************************************************************)
ErrorResult(model, message) ==
  [modelId |-> model.id, content |-> Str(""), hasError |-> TRUE, error |-> message]

SuccessResult(model, content) ==
  [modelId |-> model.id, content |-> content, hasError |-> FALSE, error |-> ""]

NoResult == [modelId |-> "", content |-> Undefined, hasError |-> FALSE, error |-> ""]

\* a makeRequest that sends whatever key it is given
makeRequestNeverRefuses(apiKey) == FALSE

\* lines 69-78: TRUE when makeRequest returns without calling fetch
makeRequestRefusesKey(apiKey) == ~validateApiKey(sanitizeApiKey(apiKey))

\* lines 82-84
EndpointIsHttps == OPENROUTER_BASE_URL[1] = "https://"

\* lines 115-123: the catch block
CatchResult(model, isError, message) ==
  ErrorResult(model, IF isError THEN message ELSE "Unknown error occurred")

\* lines 100-123: the result for the outcome of the fetch call
makeRequestResult(model, outcome) ==
  IF outcome.kind = "reject"
    THEN CatchResult(model, outcome.isError, outcome.message)
  ELSE IF ~outcome.ok
    THEN \* response.json().catch(() => ({})), then throw new Error(...)
         IF outcome.parse = "null"
           THEN CatchResult(model, TRUE, "Cannot read properties of null (reading 'error')")
         ELSE LET message == IF outcome.parse = "syntaxError"
                               THEN Undefined ELSE outcome.errorMessage
              IN  CatchResult(model, TRUE,
                              IF Truthy(message) THEN JsToString(message)
                              ELSE HttpStatusMessage(outcome.status))
  ELSE IF outcome.parse = "syntaxError"
    THEN CatchResult(model, TRUE, "Unexpected end of JSON input")
  ELSE IF outcome.parse = "null"
    THEN CatchResult(model, TRUE, "Cannot read properties of null (reading 'choices')")
  ELSE SuccessResult(model, IF Truthy(outcome.content) THEN outcome.content
                            ELSE Str("No response received"))

(***************************************************************************)
(* createMessages.  The text of the user message is kept as the sequence   *)
(* of the pieces appended to it; reads[i] is what readFileAsText does for  *)
(* the i-th attachment, should it be called.                               *)
(***************************************************************************)
\* what readFileAsText ends with: the file's text, of some length, or a failure
ReadText(length) == [ok |-> TRUE, length |-> length]
ReadError == [ok |-> FALSE, length |-> 0]

ReadOutcomes == {ReadText(5), ReadError}

\* A text is told by what it is and, for the text of a file, by how many of
\* the file's first characters it holds and whether the truncation marker
\* '\n\n[Content truncated - file is too large]' follows them.
Payload(what, chars, marker) == [what |-> what, chars |-> chars, marker |-> marker]

Piece(kind, name, payload) == [kind |-> kind, name |-> name, payload |-> payload]

SystemMessage ==
  [role |-> "system",
   content |-> << [type |-> "string",
                   text |-> << Piece("system", <<>>, Payload("helpful-assistant", 0, FALSE)) >>,
                   url |-> <<>>] >>]

\* the longest file text embedded whole
MaxContentLength == 10000

\* a cut that also takes a text of exactly the limit
TruncateAtLimit(length) ==
  IF length >= MaxContentLength
    THEN Payload("file-text", MaxContentLength, TRUE)
    ELSE Payload("file-text", length, FALSE)

\* lines 193-195: fileContent.substring(0, 10000) + marker when too long
Truncate(length) ==
  IF length > MaxContentLength
    THEN Payload("file-text", MaxContentLength, TRUE)
    ELSE Payload("file-text", length, FALSE)

textBasedTypes == {"document", "data", "file"}

plainTextExtensions == {"txt","md","json","xml","csv","js","ts","jsx","tsx",
                        "css","html","py","java","cpp","c","h"}

\* a loop that reads every file that is not a PDF as text
AttachmentPieceReadsAll(attachment, read) ==
  IF attachment.type = "pdf"
    THEN Piece("block", attachment.name, Payload("pdf-placeholder", 0, FALSE))
  ELSE IF ~read.ok
    THEN Piece("unreadable", attachment.name, Payload(attachment.type, 0, FALSE))
  ELSE Piece("block", attachment.name, Truncate(read.length))

\* lines 181-202: the piece appended to content[0].text for a non-image
\* attachment with a file; the catch turns a failed read into a note
AttachmentPiece(attachment, read) ==
  IF attachment.type = "pdf"
    THEN Piece("block", attachment.name, Payload("pdf-placeholder", 0, FALSE))
  ELSE IF \/ attachment.type \in textBasedTypes
          \/ Extension(attachment.name) \in plainTextExtensions
    THEN IF ~read.ok
           THEN Piece("unreadable", attachment.name, Payload(attachment.type, 0, FALSE))
           ELSE Piece("block", attachment.name, Truncate(read.length))
  ELSE Piece("block", attachment.name, Payload("binary-placeholder", 0, FALSE))

IsImage(attachment) == attachment.type = "image"
AppendsText(attachment) == ~IsImage(attachment) /\ attachment.hasFile

\* a loop that walks the attachments from the last to the first
RECURSIVE TextPiecesLastFirst(_, _, _)
TextPiecesLastFirst(attachments, reads, i) ==
  IF i > Len(attachments) THEN <<>>
  ELSE TextPiecesLastFirst(attachments, reads, i + 1)
       \o (IF AppendsText(attachments[i])
             THEN << AttachmentPiece(attachments[i], reads[i]) >> ELSE <<>>)

RECURSIVE TextPieces(_, _, _)
TextPieces(attachments, reads, i) ==
  IF i > Len(attachments) THEN <<>>
  ELSE (IF AppendsText(attachments[i])
          THEN << AttachmentPiece(attachments[i], reads[i]) >> ELSE <<>>)
       \o TextPieces(attachments, reads, i + 1)

RECURSIVE ImageParts(_, _)
ImageParts(attachments, i) ==
  IF i > Len(attachments) THEN <<>>
  ELSE (IF IsImage(attachments[i])
          THEN << [type |-> "image_url", text |-> <<>>, url |-> attachments[i].name] >>
          ELSE <<>>)
       \o ImageParts(attachments, i + 1)

\* a read failure that is not caught
createMessagesThrowsOnReadError(request, reads) ==
  \E i \in DOMAIN request.attachments :
    /\ AppendsText(request.attachments[i])
    /\ AttachmentPiece(request.attachments[i], reads[i]).kind = "unreadable"

\* a failure that escapes createMessages (none does: every read is inside
\* the try of lines 181-202)
createMessagesThrows(request, reads) == FALSE

\* a user message that is a part list whatever the attachments
createMessagesAlwaysParts(request, reads) ==
  LET prompt == Piece("prompt", <<>>, Payload(request.prompt, 0, FALSE)) IN
  << SystemMessage,
     [role |-> "user",
      content |-> << [type |-> "text",
                      text |-> <<prompt>> \o TextPieces(request.attachments, reads, 1),
                      url |-> <<>>] >>
                  \o ImageParts(request.attachments, 1)] >>

createMessages(request, reads) ==
  LET prompt == Piece("prompt", <<>>, Payload(request.prompt, 0, FALSE)) IN
  IF Len(request.attachments) > 0
    THEN << SystemMessage,
            [role |-> "user",
             content |-> << [type |-> "text",
                             text |-> <<prompt>> \o TextPieces(request.attachments, reads, 1),
                             url |-> <<>>] >>
                         \o ImageParts(request.attachments, 1)] >>
    ELSE << SystemMessage,
            [role |-> "user",
             content |-> << [type |-> "string", text |-> <<prompt>>, url |-> <<>>] >>] >>

(***************************************************************************)
(* sanitizeText and sanitizeMessages (lines 126-149).  A text is a         *)
(* sequence of characters; the regular expressions are case-insensitive.   *)
(***************************************************************************)
UpperLetters == <<"A","B","C","D","E","F","G","H","I","J","K","L","M",
                  "N","O","P","Q","R","S","T","U","V","W","X","Y","Z">>
LowerLetters == <<"a","b","c","d","e","f","g","h","i","j","k","l","m",
                  "n","o","p","q","r","s","t","u","v","w","x","y","z">>

LowerOf(c) ==
  IF c \in UpperCase
    THEN LowerLetters[CHOOSE i \in DOMAIN UpperLetters : UpperLetters[i] = c]
    ELSE c

\* the literal pat (in lower case) stands at position i of text
MatchesAt(text, i, pat) ==
  /\ i + Len(pat) - 1 <= Len(text)
  /\ \A k \in DOMAIN pat : LowerOf(text[i + k - 1]) = pat[k]

ScriptOpen == <<"<","s","c","r","i","p","t">>
ScriptClose == <<"<","/","s","c","r","i","p","t",">">>
JavascriptScheme == <<"j","a","v","a","s","c","r","i","p","t",":">>

\* /<script\b[^<]*(?:(?!<\/script>)<[^<]*)*<\/script>/gi at the head of
\* text: the length of the match, 0 for none.  The match runs to the first
\* '</script>' after '<script' and a word boundary.
ScriptMatch(text) ==
  IF /\ MatchesAt(text, 1, ScriptOpen)
     /\ Len(text) > Len(ScriptOpen)
     /\ text[Len(ScriptOpen) + 1] \notin WordChars
    THEN LET ends == {j \in (Len(ScriptOpen) + 1)..Len(text) : MatchesAt(text, j, ScriptClose)}
         IN  IF ends = {} THEN 0
             ELSE (CHOOSE j \in ends : \A l \in ends : j <= l) + Len(ScriptClose) - 1
    ELSE 0

\* /javascript:/gi at the head of text
SchemeMatch(text) ==
  IF MatchesAt(text, 1, JavascriptScheme) THEN Len(JavascriptScheme) ELSE 0

\* the length of the longest run of characters of class at the head of text
RECURSIVE RunLength(_, _)
RunLength(text, class) ==
  IF text # <<>> /\ Head(text) \in class THEN 1 + RunLength(Tail(text), class) ELSE 0

\* /on\w+\s*=/gi at the head of text: 'on', all the word characters that
\* follow (one at least), the white space after them, and '='
HandlerMatch(text) ==
  IF MatchesAt(text, 1, <<"o","n">>)
    THEN LET word == RunLength(SubSeq(text, 3, Len(text)), WordChars)
             space == RunLength(SubSeq(text, 3 + word, Len(text)), WhiteSpace)
             at == 3 + word + space
         IN  IF word >= 1 /\ at <= Len(text) /\ text[at] = "=" THEN at ELSE 0
    ELSE 0

\* text.replace(re, '') with the g flag: the matches are removed from left
\* to right, and what a removal brings together is not looked at again
RECURSIVE RemoveScripts(_)
RemoveScripts(text) ==
  IF text = <<>> THEN <<>>
  ELSE IF ScriptMatch(text) > 0
    THEN RemoveScripts(SubSeq(text, ScriptMatch(text) + 1, Len(text)))
  ELSE <<Head(text)>> \o RemoveScripts(Tail(text))

RECURSIVE RemoveSchemes(_)
RemoveSchemes(text) ==
  IF text = <<>> THEN <<>>
  ELSE IF SchemeMatch(text) > 0
    THEN RemoveSchemes(SubSeq(text, SchemeMatch(text) + 1, Len(text)))
  ELSE <<Head(text)>> \o RemoveSchemes(Tail(text))

RECURSIVE RemoveHandlers(_)
RemoveHandlers(text) ==
  IF text = <<>> THEN <<>>
  ELSE IF HandlerMatch(text) > 0
    THEN RemoveHandlers(SubSeq(text, HandlerMatch(text) + 1, Len(text)))
  ELSE <<Head(text)>> \o RemoveHandlers(Tail(text))

\* lines 145-147: the three replacements, in this order
\* (each replace() returns a finished string that the next one reads)
Replacements(text) ==
  CHOOSE out \in {RemoveHandlers(noScheme) :
                    noScheme \in {RemoveSchemes(noScript) :
                                    noScript \in {RemoveScripts(text)}}} : TRUE

\* lines 140-149
sanitizeText(text) ==
  CHOOSE out \in {Trim(replaced) : replaced \in {Replacements(text)}} : TRUE

\* sanitizeText on the text of a message: the prompt's characters followed
\* by the pieces createMessages appended.  The pieces (delimiters,
\* placeholders, notes; file names and file texts taken free of markup)
\* hold no '<', no '=' and no 'javascript:' and start with a line break, so
\* no match reaches into them and each is left as it is; they also keep the
\* end of the prompt from being the end of the text that trim() cuts.
sanitizePieces(text) ==
  [k \in DOMAIN text |->
     IF text[k].kind = "prompt"
       THEN Piece("prompt", <<>>,
                  Payload(IF Len(text) = 1
                            THEN sanitizeText(text[k].payload.what)
                            ELSE CHOOSE out \in
                                   {TrimLeft(replaced) :
                                      replaced \in {Replacements(text[k].payload.what)}} : TRUE,
                          0, FALSE))
       ELSE text[k]]

\* a sanitizeMessages that leaves the parts of structured content alone
sanitizeMessagesStringsOnly(messages) ==
  [m \in DOMAIN messages |->
     [role |-> messages[m].role,
      content |-> [k \in DOMAIN messages[m].content |->
                     IF messages[m].content[k].type = "string"
                       THEN [messages[m].content[k] EXCEPT
                               !.text = sanitizePieces(messages[m].content[k].text)]
                       ELSE messages[m].content[k]]]]

\* lines 126-138: string content is sanitized, and so is the text of every
\* part of structured content that has one
sanitizeMessages(messages) ==
  [m \in DOMAIN messages |->
     [role |-> messages[m].role,
      content |-> [k \in DOMAIN messages[m].content |->
                     IF messages[m].content[k].text # <<>>
                       THEN [messages[m].content[k] EXCEPT
                               !.text = sanitizePieces(messages[m].content[k].text)]
                       ELSE messages[m].content[k]]]]

\* an Authorization header built from the key as given
FetchRequestRawKey(model, messages, apiKey) ==
  [authorization |-> apiKey, model |-> model.apiModel,
   messages |-> sanitizeMessages(messages)]

\* lines 86-98: the call handed to fetch
FetchRequest(model, messages, apiKey) ==
  [authorization |-> sanitizeApiKey(apiKey), model |-> model.apiModel,
   messages |-> sanitizeMessages(messages)]

\* a sanitizeMessages that writes into the list it is given
SharedSanitizedInPlace(messages) == sanitizeMessages(messages)

\* lines 127-137: map and the spreads build new objects; the list handed
\* to sanitizeMessages is left as it was
SharedAfterSanitize(messages) == messages

(***************************************************************************)
(* generateResponses, lines 238-254: model selection and filtering.        *)
(***************************************************************************)
ModelById(id) == CHOOSE m \in Range(AVAILABLE_MODELS) : m.id = id

\* a selection that walks request.models instead of the registry
SelectedModelsFromRequest(request) ==
  LET Known(id) == id \in RegistryIds
      ids == SelectSeq(request.models, Known)
  IN  [i \in DOMAIN ids |-> ModelById(ids[i])]

\* AVAILABLE_MODELS.filter(model => request.models.includes(model.id))
SelectedModels(request) ==
  LET Requested(model) == model.id \in Range(request.models)
  IN  SelectSeq(AVAILABLE_MODELS, Requested)

hasImageAttachments(request) ==
  \E i \in DOMAIN request.attachments : request.attachments[i].type = "image"

\* a filter that is applied whatever the attachments are
CompatibleModelsAlwaysFiltered(request) ==
  LET SupportsImages(model) == model.supportsImages
  IN  SelectSeq(SelectedModels(request), SupportsImages)

CompatibleModels(request) ==
  LET SupportsImages(model) == model.supportsImages
  IN  IF hasImageAttachments(request)
        THEN SelectSeq(SelectedModels(request), SupportsImages)
        ELSE SelectedModels(request)

NoThrow == "none"

\* a check that forgets the filtered list
ConfigurationErrorSelectedOnly(request) ==
  IF Len(SelectedModels(request)) = 0
    THEN "No valid models selected"
  ELSE NoThrow

\* the Error generateResponses throws before it awaits anything, if any
ConfigurationError(request) ==
  IF Len(SelectedModels(request)) = 0
    THEN "No valid models selected"
  ELSE IF Len(CompatibleModels(request)) = 0
    THEN "No models support the requested features (image processing)"
  ELSE NoThrow

\* the same delay for every position
TimerDelayFlat(index) == RATE_LIMIT_DELAY

\* index * RATE_LIMIT_DELAY, index counted from 0
TimerDelay(index) == index * RATE_LIMIT_DELAY

\* every callback sees the last model of the list
CallbackModelLast(models, i) == models[Len(models)]

\* the model the timer callback of position i (from 1) passes to makeRequest
CallbackModel(models, i) == models[i]

\* a failed response becomes the value of every promise
SettleFailAll(rs, i, response) ==
  IF response.hasError THEN [j \in DOMAIN rs |-> response]
  ELSE [rs EXCEPT ![i] = response]

\* resolve(response) of the promise at position i
Settle(rs, i, response) == [rs EXCEPT ![i] = response]

\* fulfilled as soon as one promise is, as Promise.race is
PromiseRaceReady(ps) == \E i \in DOMAIN ps : ps[i] = "settled"

\* Promise.all is fulfilled once every promise is
PromiseAllReady(ps) == \A i \in DOMAIN ps : ps[i] = "settled"

\* the values in the order the promises were resolved
PromiseValuesByCompletion(rs, order) == [k \in DOMAIN order |-> rs[order[k]]]

\* Promise.all gives the values in the order of the promises
PromiseAllValues(rs, order) == rs

(***************************************************************************)
(* The requests generateResponses is called with.                          *)
(***************************************************************************)
\* the prompt of the requests: a text that sanitizeText changes
Prompts == {<<"j","a","v","a","j","a","v","a","s","c","r","i","p","t",":",
              "s","c","r","i","p","t",":","x">>}

Requests ==
  [prompt : Prompts,
   apiKey : ApiKeys,
   models : SeqsUpTo(RequestableIds, MaxRequested),
   attachments : SeqsUpTo(Attachments, MaxAttachments)]

NoRequest == [prompt |-> <<>>, apiKey |-> <<>>, models |-> <<>>, attachments |-> <<>>]

\* the requests with at most one model, for the study of a single call
CallRequests == {req \in Requests : Len(req.models) <= 1}

\* granularity of the clock
TickMs == RATE_LIMIT_DELAY

\* the read made for each attachment whose text createMessages reads
\* (lines 189-191), and NoRead for the others
NoRead == [ok |-> FALSE, length |-> -1]

\* a fetch call that has not ended (or was not made)
NoOutcome == Reject(FALSE, "pending")

IsRead(attachment) ==
  /\ AppendsText(attachment)
  /\ attachment.type # "pdf"
  /\ \/ attachment.type \in textBasedTypes
     \/ Extension(attachment.name) \in plainTextExtensions

ReadsDone(attachments, reads) ==
  [i \in DOMAIN attachments |-> IF IsRead(attachments[i]) THEN reads[i] ELSE NoRead]

\* App state before anything is shown or validated
NoError == [kind |-> "", removed |-> <<>>, reason |-> ""]
NoValidation == [called |-> FALSE, isValid |-> FALSE, errors |-> <<>>]
NoCall == [handler |-> "", selectedModels |-> <<>>]

(***************************************************************************)
(* State.                                                                  *)
(***************************************************************************)
VARIABLES
  pc,                \* where the generateResponses call is
  request,           \* its argument
  thrown,            \* the message of the Error it rejected with
  compatibleModels,  \* the local of that name (a sequence of registry entries)
  messages,          \* what createMessages returned
  delays,            \* delays[i]: the delay given to setTimeout for position i
  elapsed,           \* milliseconds since the timers were set
  promises,          \* promises[i]: "scheduled", "inflight" or "settled"
  results,           \* results[i]: the value promise i resolved with
  fetches,           \* fetches[i]: the fetch calls made for position i
  settledOrder,      \* the positions, in the order their promises were resolved
  returned,          \* the list generateResponses resolved with
  fileReads,         \* fileReads[i]: what reading attachment i gave createMessages
  outcomes,          \* outcomes[i]: what the fetch call of position i ended with
  apiKey,            \* App state: the key typed into ApiKeyInput
  validation,        \* what securityManager.validateApiKey last returned for apiKey
  selectedModels,    \* App state: the selected model ids
  currentAttachments, \* App state: the attachments of the prompt form
  error,             \* App state: the message shown
  errorTimers,       \* the 5-second timers of handleAttachmentsChange not yet run
  lastCall,          \* the last App handler run and the selection it started from
  responses,         \* App state: the results shown
  isLoading          \* App state: a submission is running

appVars == <<apiKey, validation, selectedModels, currentAttachments, error,
             errorTimers, lastCall, responses, isLoading>>

vars == <<pc, request, thrown, compatibleModels, messages, delays, elapsed,
          promises, results, fetches, settledOrder, returned, fileReads,
          outcomes, appVars>>

Init ==
  /\ pc = "idle"
  /\ request = NoRequest
  /\ thrown = NoThrow
  /\ compatibleModels = <<>>
  /\ messages = <<>>
  /\ delays = <<>>
  /\ elapsed = 0
  /\ promises = <<>>
  /\ results = <<>>
  /\ fetches = <<>>
  /\ settledOrder = <<>>
  /\ returned = <<>>
  /\ fileReads = <<>>
  /\ outcomes = <<>>
  /\ apiKey = <<>>
  /\ validation = NoValidation
  /\ selectedModels = <<"claude-opus-4.1", "grok-4", "gemini-2.5-pro", "codestral-2508">>
  /\ currentAttachments = <<>>
  /\ error = NoError
  /\ errorTimers = 0
  /\ lastCall = NoCall
  /\ responses = <<>>
  /\ isLoading = FALSE

\* lines 237-256: the call, up to the await of createMessages
GenerateResponses(req) ==
  /\ pc = "idle"
  /\ request' = req
  /\ IF ConfigurationError(req) # NoThrow
       THEN /\ pc' = "rejected"
            /\ thrown' = ConfigurationError(req)
            /\ UNCHANGED compatibleModels
       ELSE /\ pc' = "building"
            /\ compatibleModels' = CompatibleModels(req)
            /\ UNCHANGED thrown
  /\ UNCHANGED <<messages, delays, elapsed, promises, results, fetches,
                 settledOrder, returned, fileReads, outcomes, appVars>>

\* lines 256-266: createMessages returns and every timer is set
Dispatch(reads) ==
  /\ pc = "building"
  /\ IF createMessagesThrows(request, reads)
       THEN /\ pc' = "rejected"
            /\ thrown' = "read failed"
            /\ UNCHANGED <<messages, delays, elapsed, promises, results, fetches,
                           fileReads, outcomes>>
       ELSE /\ pc' = "dispatched"
            /\ messages' = createMessages(request, reads)
            /\ fileReads' = ReadsDone(request.attachments, reads)
            /\ outcomes' = [i \in DOMAIN compatibleModels |-> NoOutcome]
            /\ delays' = [i \in DOMAIN compatibleModels |-> TimerDelay(i - 1)]
            /\ elapsed' = 0
            /\ promises' = [i \in DOMAIN compatibleModels |-> "scheduled"]
            /\ results' = [i \in DOMAIN compatibleModels |-> NoResult]
            /\ fetches' = [i \in DOMAIN compatibleModels |-> <<>>]
            /\ UNCHANGED thrown
  /\ UNCHANGED <<request, compatibleModels, settledOrder, returned, appVars>>

\* time passes while a timer waits for its delay (a timer is run at the
\* first clock value that allows it; other steps may still come before it)
Tick ==
  /\ \E i \in DOMAIN promises : promises[i] = "scheduled" /\ elapsed < delays[i]
  /\ elapsed' = elapsed + TickMs
  /\ UNCHANGED <<pc, request, thrown, compatibleModels, messages, delays,
                 promises, results, fetches, settledOrder, returned, fileReads, outcomes,
                 appVars>>

\* an event loop that runs the first timer only
TimerDueFirstOnly(i) ==
  /\ i = 1
  /\ promises[i] = "scheduled"
  /\ elapsed >= delays[i]

\* a timer is run once its delay has passed, after the timers due before it
TimerDue(i) ==
  /\ promises[i] = "scheduled"
  /\ elapsed >= delays[i]
  /\ \A j \in DOMAIN promises :
       (delays[j] < delays[i] \/ (delays[j] = delays[i] /\ j < i))
         => promises[j] # "scheduled"

\* lines 261-264 with 66-98: the timer callback calls makeRequest, which
\* returns at once for a refused key and calls fetch otherwise
TimerFire(i) ==
  /\ TimerDue(i)
  /\ LET model == CallbackModel(compatibleModels, i) IN
     IF makeRequestRefusesKey(request.apiKey)
       THEN /\ results' = Settle(results, i, ErrorResult(model, "Invalid API key format"))
            /\ promises' = [promises EXCEPT ![i] = "settled"]
            /\ settledOrder' = Append(settledOrder, i)
            /\ UNCHANGED fetches
     ELSE IF ~EndpointIsHttps
       THEN /\ results' = Settle(results, i, ErrorResult(model, "API endpoint must use HTTPS"))
            /\ promises' = [promises EXCEPT ![i] = "settled"]
            /\ settledOrder' = Append(settledOrder, i)
            /\ UNCHANGED fetches
     ELSE /\ fetches' = [fetches EXCEPT
                          ![i] = Append(@, FetchRequest(model, messages, request.apiKey))]
          /\ promises' = [promises EXCEPT ![i] = "inflight"]
          /\ UNCHANGED <<results, settledOrder>>
  /\ messages' = SharedAfterSanitize(messages)
  /\ UNCHANGED <<pc, request, thrown, compatibleModels, delays,
                 elapsed, returned, fileReads, outcomes, appVars>>

\* lines 100-123 and 263: the fetch call ends, makeRequest returns and the
\* promise is resolved
FetchDone(i, outcome) ==
  /\ promises[i] = "inflight"
  /\ results' = Settle(results, i,
                       makeRequestResult(CallbackModel(compatibleModels, i), outcome))
  /\ promises' = [promises EXCEPT ![i] = "settled"]
  /\ settledOrder' = Append(settledOrder, i)
  /\ outcomes' = [outcomes EXCEPT ![i] = outcome]
  /\ UNCHANGED <<pc, request, thrown, compatibleModels, messages, delays,
                 elapsed, fetches, returned, fileReads, appVars>>

\* lines 269-270: Promise.all is fulfilled and generateResponses returns
ResolveAll ==
  /\ pc = "dispatched"
  /\ PromiseAllReady(promises)
  /\ returned' = PromiseAllValues(results, settledOrder)
  /\ pc' = "resolved"
  /\ UNCHANGED <<request, thrown, compatibleModels, messages, delays, elapsed,
                 promises, results, fetches, settledOrder, fileReads, outcomes, appVars>>


(***************************************************************************)
(* securityManager.validateApiKey (SecurityManager, lines 144-174).        *)
(***************************************************************************)
\* /^[a-zA-Z0-9-_]+$/
SecurityKeyChars == LowerCase \cup UpperCase \cup Digits \cup {"-", "_"}

SecurityRuleErrors(key) ==
     (IF ~StartsWith(key, KeyPrefix) THEN <<"Invalid API key format">> ELSE <<>>)
  \o (IF Len(key) < 25 THEN <<"API key too short">> ELSE <<>>)
  \o (IF Len(key) > 200 THEN <<"API key too long">> ELSE <<>>)
  \o (IF \E i \in DOMAIN key : key[i] \notin SecurityKeyChars
        THEN <<"API key contains invalid characters">> ELSE <<>>)

\* a validator that stops at the first rule violated
securityValidateApiKeyFirstOnly(key) ==
  LET errors == IF key = <<>> THEN <<"API key is required">>
                ELSE IF SecurityRuleErrors(key) = <<>> THEN <<>>
                ELSE <<Head(SecurityRuleErrors(key))>>
  IN  [called |-> TRUE, isValid |-> Len(errors) = 0, errors |-> errors]

securityValidateApiKey(key) ==
  LET errors == IF key = <<>> THEN <<"API key is required">>
                ELSE SecurityRuleErrors(key)
  IN  [called |-> TRUE, isValid |-> Len(errors) = 0, errors |-> errors]

\* the keys typed into ApiKeyInput: a head, a run of 'a' and a last character
KeyHeads == {KeyPrefix, <<>>, <<"s","k","-">>}
KeyRuns == {0, 14, 15, 16, 189, 190, 191, 192}
KeyTails == {<<>>, <<"_">>, <<"!">>, <<"-">>}

TypedKeys == {h \o Rep("a", n) \o t : h \in KeyHeads, n \in KeyRuns, t \in KeyTails}

(***************************************************************************)
(* App: handleAttachmentsChange (lines 23-75) and the state setters.       *)
(***************************************************************************)
\* a filter that consults supportsNonImageAttachments only
KeepsModelNonImageOnly(modelId, attachments) ==
  /\ modelId \in RegistryIds
  /\ ModelById(modelId).supportsNonImageAttachments

\* lines 31-47: the callback of selectedModels.filter
KeepsModel(modelId, attachments) ==
  LET hasNonImageAttachments ==
        \E i \in DOMAIN attachments : attachments[i].type # "image"
      hasAnyAttachments == Len(attachments) > 0
  IN  IF modelId \notin RegistryIds THEN FALSE
      ELSE IF modelId = "codestral-2508" /\ hasAnyAttachments THEN FALSE
      ELSE IF hasNonImageAttachments
        THEN ModelById(modelId).supportsNonImageAttachments
      ELSE ModelById(modelId).supportsImages

FilterSelection(selection, attachments) ==
  LET Keep(modelId) == KeepsModel(modelId, attachments)
  IN  SelectSeq(selection, Keep)

\* lines 52-66: the note shown (the removed models are kept by id; the
\* message shows their names)
DeselectNote(selection, compatible, attachments) ==
  LET Removed(id) == id \notin Range(compatible)
      removedModels == SelectSeq(selection, Removed)
  IN  [kind |-> "Note",
       removed |-> removedModels,
       reason |-> IF "codestral-2508" \in Range(removedModels) /\ Len(attachments) > 0
                    THEN "they don't support attachments"
                  ELSE IF \E i \in DOMAIN attachments : attachments[i].type # "image"
                    THEN "they don't support non-image attachments"
                  ELSE "they don't support image attachments"]

\* how many 5-second timers the model lets wait at once
MaxErrorTimers == 1

HandleAttachmentsChange(attachments) ==
  /\ errorTimers < MaxErrorTimers
  /\ currentAttachments' = attachments
  /\ lastCall' = [handler |-> "handleAttachmentsChange", selectedModels |-> selectedModels]
  /\ IF Len(attachments) > 0
       THEN LET compatible == FilterSelection(selectedModels, attachments) IN
            IF Len(compatible) < Len(selectedModels)
              THEN /\ selectedModels' = compatible
                   /\ error' = DeselectNote(selectedModels, compatible, attachments)
                   /\ errorTimers' = errorTimers + 1
              ELSE UNCHANGED <<selectedModels, error, errorTimers>>
       ELSE /\ error' = NoError
            /\ UNCHANGED <<selectedModels, errorTimers>>
  /\ UNCHANGED <<pc, request, thrown, compatibleModels, messages, delays, elapsed,
                 promises, results, fetches, settledOrder, returned, fileReads, outcomes,
                 apiKey, validation,
                 responses, isLoading>>

\* line 69: setTimeout(() => setError(''), 5000)
ErrorTimerFires ==
  /\ errorTimers > 0
  /\ errorTimers' = errorTimers - 1
  /\ error' = NoError
  /\ UNCHANGED <<pc, request, thrown, compatibleModels, messages, delays, elapsed,
                 promises, results, fetches, settledOrder, returned, fileReads, outcomes,
                 apiKey, validation, selectedModels, currentAttachments, lastCall,
                 responses, isLoading>>

\* ModelSelector's onSelectionChange={setSelectedModels}
SetSelectedModels(selection) ==
  /\ selectedModels' = selection
  /\ lastCall' = [handler |-> "setSelectedModels", selectedModels |-> <<>>]
  /\ UNCHANGED <<pc, request, thrown, compatibleModels, messages, delays, elapsed,
                 promises, results, fetches, settledOrder, returned, fileReads, outcomes,
                 apiKey, validation, currentAttachments, error, errorTimers,
                 responses, isLoading>>

\* ApiKeyInput's onChange={setApiKey}
SetApiKey(key) ==
  /\ apiKey' = key
  /\ validation' = NoValidation
  /\ UNCHANGED <<pc, request, thrown, compatibleModels, messages, delays, elapsed,
                 promises, results, fetches, settledOrder, returned, fileReads, outcomes,
                 selectedModels, currentAttachments, error, errorTimers, lastCall,
                 responses, isLoading>>

\* line 84: const validation = securityManager.validateApiKey(apiKey)
ValidateKey ==
  /\ ~validation.called
  /\ validation' = securityValidateApiKey(apiKey)
  /\ UNCHANGED <<pc, request, thrown, compatibleModels, messages, delays, elapsed,
                 promises, results, fetches, settledOrder, returned, fileReads, outcomes,
                 apiKey, selectedModels, currentAttachments, error, errorTimers,
                 lastCall,
                 responses, isLoading>>

\* lines 100-104: requestWithAuth, for the request the prompt form hands over
RequestWithAuth(prompt) ==
  [prompt |-> prompt, apiKey |-> apiKey, models |-> selectedModels,
   attachments |-> currentAttachments]

\* createMessages applied to a request, on its own
BuildMessages(req, reads) ==
  /\ request' = req
  /\ messages' = createMessages(req, reads)
  /\ fileReads' = ReadsDone(req.attachments, reads)
  /\ pc' = "built"
  /\ UNCHANGED <<thrown, compatibleModels, delays, elapsed, promises, results,
                 fetches, settledOrder, returned, outcomes, appVars>>

(***************************************************************************)
(* App: handleSubmitPrompt (lines 77-113).                                 *)
(***************************************************************************)
\* an error message set by a submission, with the list it joins
SubmitError(message, errors) == [kind |-> "Error", removed |-> errors, reason |-> message]

\* lines 78-93: the message of the check that turns the submission down,
\* NoError when none does
SubmitRejection(key, selection) ==
  IF Trim(key) = <<>>
    THEN SubmitError("Please enter your OpenRouter API key", <<>>)
  ELSE IF ~securityValidateApiKey(key).isValid
    THEN SubmitError("Invalid API key", securityValidateApiKey(key).errors)
  ELSE IF Len(selection) = 0
    THEN SubmitError("Please select at least one model", <<>>)
  ELSE NoError

\* a handler that empties the results before it checks
ResponsesAfterRejectionCleared(shown) == <<>>

\* lines 78-93: the results shown after a submission was turned down
ResponsesAfterRejection(shown) == shown

\* the handler up to its await: the checks, the three state updates and
\* generateResponses up to its own first await (openrouter.ts:237-256); the
\* submit button and the prompt field are disabled while isLoading
HandleSubmitPrompt(prompt) ==
  /\ ~isLoading
  /\ lastCall' = [handler |-> "handleSubmitPrompt", selectedModels |-> <<>>]
  /\ validation' = IF Trim(apiKey) = <<>> THEN validation
                   ELSE securityValidateApiKey(apiKey)
  /\ IF SubmitRejection(apiKey, selectedModels) # NoError
       THEN /\ error' = SubmitRejection(apiKey, selectedModels)
            /\ responses' = ResponsesAfterRejection(responses)
            /\ UNCHANGED <<pc, request, thrown, compatibleModels, isLoading>>
       ELSE LET req == RequestWithAuth(prompt) IN
            /\ isLoading' = TRUE
            /\ error' = NoError
            /\ responses' = <<>>
            /\ request' = req
            /\ IF ConfigurationError(req) # NoThrow
                 THEN /\ pc' = "rejected"
                      /\ thrown' = ConfigurationError(req)
                      /\ UNCHANGED compatibleModels
                 ELSE /\ pc' = "building"
                      /\ compatibleModels' = CompatibleModels(req)
                      /\ UNCHANGED thrown
  /\ UNCHANGED <<messages, delays, elapsed, promises, results, fetches,
                 settledOrder, returned, fileReads, outcomes,
                 apiKey, selectedModels, currentAttachments, errorTimers>>

\* a handler without its finally block
IsLoadingAfterCatchOnly(threw) == threw

\* lines 110-112: finally { setIsLoading(false) }
IsLoadingAfter(threw) == FALSE

\* lines 105-112: the await ends; the results are shown or the message of
\* the error thrown is, and the call's own values are gone
SubmitReturns ==
  /\ pc \in {"resolved", "rejected"}
  /\ IF pc = "resolved"
       THEN /\ responses' = returned
            /\ UNCHANGED error
       ELSE /\ error' = SubmitError(thrown, <<>>)
            /\ UNCHANGED responses
  /\ isLoading' = IsLoadingAfter(pc = "rejected")
  /\ pc' = "idle"
  /\ request' = NoRequest
  /\ thrown' = NoThrow
  /\ compatibleModels' = <<>>
  /\ messages' = <<>>
  /\ delays' = <<>>
  /\ elapsed' = 0
  /\ promises' = <<>>
  /\ results' = <<>>
  /\ fetches' = <<>>
  /\ settledOrder' = <<>>
  /\ returned' = <<>>
  /\ fileReads' = <<>>
  /\ outcomes' = <<>>
  /\ UNCHANGED <<apiKey, validation, selectedModels, currentAttachments,
                 errorTimers, lastCall>>

\* A request with any number of models; each fetch call ends in one of the
\* four kinds of outcome.
Next ==
  \/ pc = "idle" /\ \E req \in Requests : GenerateResponses(req)
  \/ pc = "building" /\ \E reads \in [1..MaxAttachments -> ReadOutcomes] : Dispatch(reads)
  \/ Tick
  \/ \E i \in DOMAIN promises : TimerFire(i)
  \/ \E i \in DOMAIN promises : \E outcome \in DispatchOutcomes : FetchDone(i, outcome)
  \/ ResolveAll

Spec == Init /\ [][Next]_vars

\* A request with at most one model; its fetch call ends in any outcome.
NextCall ==
  \/ pc = "idle" /\ \E req \in CallRequests : GenerateResponses(req)
  \/ pc = "building" /\ \E reads \in [1..MaxAttachments -> ReadOutcomes] : Dispatch(reads)
  \/ \E i \in DOMAIN promises : TimerFire(i)
  \/ \E i \in DOMAIN promises : \E outcome \in FetchOutcomes : FetchDone(i, outcome)
  \/ ResolveAll

SpecCall == Init /\ [][NextCall]_vars

\* The same steps under the scheduling of the event loop: the clock advances,
\* a timer that is due is run, a continuation that is ready is run; and every
\* fetch call started ends, with a response or with a failure.
Fairness ==
  /\ WF_vars(Tick)
  /\ \A i \in DOMAIN AVAILABLE_MODELS :
       WF_vars(i \in DOMAIN promises /\ TimerFire(i))
  /\ \A i \in DOMAIN AVAILABLE_MODELS :
       WF_vars(i \in DOMAIN promises
                 /\ \E outcome \in DispatchOutcomes : FetchDone(i, outcome))
  /\ WF_vars(ResolveAll)

\* the requests followed to their end: a key that passes or the empty key
LiveRequests ==
  {req \in Requests : req.apiKey \in {KeyGood, KeyEmpty} /\ req.attachments = <<>>}

NextLive ==
  \/ pc = "idle" /\ \E req \in LiveRequests : GenerateResponses(req)
  \/ pc = "building" /\ \E reads \in [1..MaxAttachments -> ReadOutcomes] : Dispatch(reads)
  \/ Tick
  \/ \E i \in DOMAIN promises : TimerFire(i)
  \/ \E i \in DOMAIN promises : \E outcome \in DispatchOutcomes : FetchDone(i, outcome)
  \/ ResolveAll

SpecLive == Init /\ [][NextLive]_vars /\ Fairness

\* The selection and the attachments change while no call runs; submitting
\* hands requestWithAuth to generateResponses, whose filters then run.
\* ModelSelector offers the registry's models
Selections == SeqsUpTo(RegistryIds, MaxRequested)

NextFilter ==
  \/ pc = "idle" /\ \E selection \in Selections : SetSelectedModels(selection)
  \/ pc = "idle" /\ \E attachments \in SeqsUpTo(Attachments, MaxAttachments) :
                      HandleAttachmentsChange(attachments)
  \/ ErrorTimerFires
  \/ pc = "idle" /\ \E prompt \in Prompts : GenerateResponses(RequestWithAuth(prompt))

SpecFilter == Init /\ [][NextFilter]_vars

\* createMessages applied to the requests of a caller: up to
\* MaxMessageAttachments attachments, images and files of each kind, one of
\* them without its File object; the texts read are short, of the limit's
\* length and one character longer, or the read fails.
MaxMessageAttachments == 3

MessageAttachments ==
  Attachments
    \cup {NewAttachment(<<"scan", "jpg">>),
          NewAttachment(<<"tool", "exe">>),
          [NewAttachment(<<"notes", "txt">>) EXCEPT !.hasFile = FALSE]}

MessageReadOutcomes ==
  {ReadError, ReadText(5), ReadText(MaxContentLength), ReadText(MaxContentLength + 1)}

MessageRequests ==
  [prompt : Prompts,
   apiKey : {KeyGood},
   models : {<<"claude-opus-4.1">>},
   attachments : SeqsUpTo(MessageAttachments, MaxMessageAttachments)]

NextMessages ==
  pc = "idle" /\ \E req \in MessageRequests :
                   \E reads \in [1..MaxMessageAttachments -> MessageReadOutcomes] :
                     BuildMessages(req, reads)

SpecMessages == Init /\ [][NextMessages]_vars

\* The key field and the validator.
NextKey ==
  \/ \E key \in TypedKeys : SetApiKey(key)
  \/ ValidateKey

SpecKey == Init /\ [][NextKey]_vars

\* The texts sent: prompts put together from pieces of markup, as the only
\* content of the user message or as the text part next to an image or
\* before the text of a file.
MaxFragments == 3

Fragments ==
  { <<"j","a","v","a">>,
    <<"s","c","r","i","p","t",":">>,
    <<"J","a","v","a","S","c","r","i","p","t",":">>,
    <<"o","n">>,
    <<"c","l","i","c","k"," ","=">>,
    <<" ">>,
    <<"<","s","c","r","i","p","t",">">>,
    <<"<","/","S","C","R","I","P","T",">">>,
    <<"x">> }

RECURSIVE Concat(_)
Concat(parts) == IF parts = <<>> THEN <<>> ELSE Head(parts) \o Concat(Tail(parts))

SanitizePrompts == {Concat(parts) : parts \in SeqsUpTo(Fragments, MaxFragments)}

SanitizeRequests ==
  [prompt : SanitizePrompts,
   apiKey : {KeyGood},
   models : {<<"claude-opus-4.1">>},
   attachments : {<<>>,
                  <<NewAttachment(<<"photo", "PNG">>)>>,
                  <<NewAttachment(<<"notes", "txt">>)>>}]

NextSanitize ==
  \/ pc = "idle" /\ \E req \in SanitizeRequests : GenerateResponses(req)
  \/ pc = "building" /\ \E reads \in [1..MaxAttachments -> {ReadText(5)}] : Dispatch(reads)
  \/ \E i \in DOMAIN promises : TimerFire(i)

SpecSanitize == Init /\ [][NextSanitize]_vars

\* The App: the key, the selection and the attachments are set, the prompt
\* form submits, and the call a submission starts runs to its end.
AppKeys == {KeyEmpty, <<" ">>, KeyGood, KeyUnderscore}

AppSelections == {<<>>, <<"claude-opus-4.1">>, <<"codestral-2508">>}

AppAttachments ==
  {<<>>, <<NewAttachment(<<"photo", "PNG">>)>>, <<NewAttachment(<<"notes", "txt">>)>>}

SubmitOutcomes ==
  { Response(TRUE, 200, "object", Undefined, Str("rate limited")),
    Reject(TRUE, "Failed to fetch") }

NextApp ==
  \/ pc = "idle" /\ \E key \in AppKeys : SetApiKey(key)
  \/ pc = "idle" /\ \E selection \in AppSelections : SetSelectedModels(selection)
  \/ \E attachments \in AppAttachments : HandleAttachmentsChange(attachments)
  \/ ErrorTimerFires
  \/ \E prompt \in Prompts : HandleSubmitPrompt(prompt)
  \/ pc = "building" /\ \E reads \in [1..MaxAttachments -> {ReadText(5)}] : Dispatch(reads)
  \/ Tick
  \/ \E i \in DOMAIN promises : TimerFire(i)
  \/ \E i \in DOMAIN promises : \E outcome \in SubmitOutcomes : FetchDone(i, outcome)
  \/ ResolveAll
  \/ SubmitReturns

SpecApp == Init /\ [][NextApp]_vars

(***************************************************************************)
(* Properties.  The definitions below state the claims in their own terms: *)
(* they do not use the operators that model generateResponses' filtering   *)
(* or the key checks.                                                      *)
(***************************************************************************)
HasImage(req) == \E i \in DOMAIN req.attachments : req.attachments[i].type = "image"
HasNonImage(req) == \E i \in DOMAIN req.attachments : req.attachments[i].type # "image"

\* the ids of the compatible models of a request
CompatibleIds(req) ==
  {id \in RegistryIds :
     /\ \E i \in DOMAIN req.models : req.models[i] = id
     /\ HasImage(req) => ModelById(id).supportsImages}

\* the registry order of the compatible ids
RegistryPosition(id) == CHOOSE i \in DOMAIN AVAILABLE_MODELS : AVAILABLE_MODELS[i].id = id

Dispatched == pc \in {"dispatched", "resolved"}

InvalidKeyResult(r) ==
  /\ r.hasError
  /\ r.error = "Invalid API key format"
  /\ r.content = Str("")

\* C1: once generateResponses has resolved, the returned list has one result
\* per compatible model of the request: as many results as compatible models,
\* every compatible id the modelId of exactly one result, and no other modelId.
C1_OneResultPerCompatibleModel ==
  pc = "resolved" =>
    /\ Len(returned) = Cardinality(CompatibleIds(request))
    /\ \A id \in CompatibleIds(request) :
         Cardinality({i \in DOMAIN returned : returned[i].modelId = id}) = 1
    /\ \A i \in DOMAIN returned : returned[i].modelId \in CompatibleIds(request)

\* a resolved call whose request named one model twice
C1_Witness ==
  /\ pc = "resolved"
  /\ Len(request.models) = 2
  /\ request.models[1] = request.models[2]
  /\ Len(returned) = 1

\* C2 (as claimed): every result makeRequest produced has an error exactly
\* when its content is the empty string, and an error that is present is not
\* the empty string.
C2_ErrorIffContentEmpty ==
  \A i \in DOMAIN results :
    promises[i] = "settled" =>
      /\ results[i].hasError <=> results[i].content = Str("")
      /\ results[i].hasError => results[i].error # ""
      /\ ~results[i].hasError => results[i].content # Str("")

\* C3: the result at position i of the returned list carries the id of the
\* i-th compatible model, in whatever order the calls completed.
C3_ResultPositions ==
  pc = "resolved" =>
    /\ Len(returned) = Cardinality(CompatibleIds(request))
    /\ \A i \in DOMAIN returned : returned[i].modelId \in CompatibleIds(request)
    /\ \A i, j \in DOMAIN returned :
         i < j => RegistryPosition(returned[i].modelId) < RegistryPosition(returned[j].modelId)

\* a resolved call whose second model completed before its first
C3_Witness ==
  /\ pc = "resolved"
  /\ Len(returned) = 2
  /\ settledOrder = <<2, 1>>

\* C4: generateResponses has not resolved while a promise is not resolved,
\* and what it returns holds the value of every promise.
C4_JoinAll ==
  pc = "resolved" =>
    /\ \A i \in DOMAIN promises : promises[i] = "settled"
    /\ Len(returned) = Len(promises)
    /\ \A i \in DOMAIN promises : returned[i] = results[i] /\ returned[i] # NoResult

\* a resolved call whose first completed call was a failure and whose last was not
C4_Witness ==
  /\ pc = "resolved"
  /\ Len(settledOrder) = 2
  /\ results[settledOrder[1]].hasError
  /\ ~results[settledOrder[2]].hasError

\* C5: the delays given to the timers are 0, 1000, 2000, ... and the call of
\* position i (from 1) is not started before (i - 1) * 1000 ms have passed.
C5_StaggeredStarts ==
  /\ [](/\ (delays # <<>> => delays[1] = 0)
        /\ \A i \in DOMAIN delays : i > 1 => delays[i] - delays[i - 1] = 1000)
  /\ [][\A i \in DOMAIN promises :
          (promises[i] = "scheduled" /\ promises'[i] # "scheduled")
            => elapsed >= (i - 1) * 1000]_vars

\* the second call started while the first one is still running
C5_Witness ==
  /\ Len(promises) = 2
  /\ promises[1] = "inflight"
  /\ promises[2] = "inflight"
  /\ elapsed >= 1000

\* C6: a step changes the result of one position only, the one whose promise
\* it resolves, and never a result already set; and with a key that passes,
\* every position has had its own fetch call when generateResponses resolves.
C6_FailureIsolated ==
  /\ [][\A j \in DOMAIN results :
          results'[j] # results[j]
            => /\ promises[j] # "settled"
               /\ promises'[j] = "settled"
               /\ results'[j].modelId = compatibleModels[j].id]_vars
  /\ [](pc = "resolved" =>
          /\ Len(returned) = Len(compatibleModels)
          /\ \A i \in DOMAIN returned :
               returned[i].error # "Invalid API key format" => Len(fetches[i]) = 1)

\* two models, the first failed, the second got its call and succeeded
C6_Witness ==
  /\ pc = "resolved"
  /\ Len(returned) = 2
  /\ returned[1].hasError
  /\ ~returned[2].hasError
  /\ Len(fetches[2]) = 1
  /\ settledOrder = <<1, 2>>

\* letters, digits and '-'; the same with '_'
RuleChars == LowerCase \cup UpperCase \cup Digits \cup {"-"}
StripChars == LowerCase \cup UpperCase \cup Digits \cup {"_", "-"}

\* the rules of the transmission check, as the claim words them
KeyRuleViolated(key) ==
  \/ ~StartsWith(key, KeyPrefix)
  \/ ~(Len(key) > 20 /\ Len(key) < 200)
  \/ \E i \in DOMAIN key : key[i] \notin RuleChars

\* the key without the characters other than letters, digits, '_' and '-'
StrippedKey(key) ==
  LET Kept(c) == c \in StripChars
  IN  SelectSeq(key, Kept)

AllRefusedNoFetch ==
  /\ \A i \in DOMAIN fetches : fetches[i] = <<>>
  /\ \A i \in DOMAIN results : promises[i] = "settled" => InvalidKeyResult(results[i])
  /\ \A i \in DOMAIN returned : InvalidKeyResult(returned[i])

\* C7 (as claimed): a credential that violates a rule gets no fetch call and
\* only 'Invalid API key format' results.
C7_RawKeyRefused ==
  (Dispatched /\ KeyRuleViolated(request.apiKey)) => AllRefusedNoFetch

\* C7 (amended): the same, for a credential that violates a rule once the
\* characters other than letters, digits, '_' and '-' are removed from it.
C7_StrippedKeyRefused ==
  (Dispatched /\ KeyRuleViolated(StrippedKey(request.apiKey))) => AllRefusedNoFetch

\* a resolved call with the empty credential and two refused results
C7_Witness ==
  /\ pc = "resolved"
  /\ request.apiKey = <<>>
  /\ Len(returned) = 2
  /\ \A i \in DOMAIN returned : InvalidKeyResult(returned[i]) /\ fetches[i] = <<>>

\* C8: a call whose request has no compatible model (none requested from the
\* registry, or none left by the filter) is rejected with no message built,
\* no timer set and no fetch call made.
C8_FailFast ==
  (pc # "idle" /\ CompatibleIds(request) = {}) =>
    /\ pc = "rejected"
    /\ thrown # NoThrow
    /\ messages = <<>>
    /\ delays = <<>>
    /\ promises = <<>>
    /\ fetches = <<>>

\* a call rejected because the filter left no model
C8_Witness ==
  /\ pc = "rejected"
  /\ \E i \in DOMAIN request.models : request.models[i] \in RegistryIds
  /\ thrown = "No models support the requested features (image processing)"

\* C9: a call whose request has a compatible model is never rejected, and
\* when it resolves every model has a result.
C9_NeverRejects ==
  (pc # "idle" /\ CompatibleIds(request) # {}) =>
    /\ pc # "rejected"
    /\ thrown = NoThrow
    /\ pc = "resolved" => /\ returned # <<>>
                          /\ \A i \in DOMAIN returned : returned[i] # NoResult

\* a resolved call whose attachment could not be read and whose model failed
C9_Witness ==
  /\ pc = "resolved"
  /\ \E i \in DOMAIN returned : returned[i].hasError /\ fetches[i] # <<>>
  /\ \E k \in DOMAIN messages[2].content[1].text :
       messages[2].content[1].text[k].kind = "unreadable"

\* C10 (as claimed): with a non-image attachment in the request, results come
\* only from models that support non-image attachments; one .txt file and
\* the two models claude-opus-4.1 and grok-4 give exactly one result.
C10_OnlyNonImageCapable ==
  (pc = "resolved" /\ HasNonImage(request)) =>
    /\ \A i \in DOMAIN returned :
         ModelById(returned[i].modelId).supportsNonImageAttachments
    /\ (/\ request.models = <<"claude-opus-4.1", "grok-4">>
        /\ request.attachments = <<NewAttachment(<<"notes", "txt">>)>>)
         => Len(returned) = 1

\* the ids of a selection that are registry ids with the given flag set
FlaggedIds(selection, flag) ==
  {id \in RegistryIds :
     /\ \E i \in DOMAIN selection : selection[i] = id
     /\ \E i \in DOMAIN AVAILABLE_MODELS :
          AVAILABLE_MODELS[i].id = id /\ AVAILABLE_MODELS[i][flag]}

OnlyImages(attachments) ==
  /\ attachments # <<>>
  /\ \A i \in DOMAIN attachments : attachments[i].type = "image"

SomeNonImage(attachments) ==
  \E i \in DOMAIN attachments : attachments[i].type # "image"

\* handleAttachmentsChange has just run
AfterAttachmentsChange == lastCall.handler = "handleAttachmentsChange"

\* generateResponses' filters have run on the request
AfterServiceFilter == pc \in {"building", "rejected"}

\* C11 (as claimed): with a non-image attachment in the list, the models the
\* App keeps selected and the models generateResponses keeps are exactly the
\* requested registry models whose supportsNonImageAttachments is true.
C11_NonImageKeepsIffFlag ==
  /\ (AfterAttachmentsChange /\ SomeNonImage(currentAttachments)) =>
        Range(selectedModels) = FlaggedIds(lastCall.selectedModels, "supportsNonImageAttachments")
  /\ (AfterServiceFilter /\ SomeNonImage(request.attachments)) =>
        {compatibleModels[i].id : i \in DOMAIN compatibleModels}
          = FlaggedIds(request.models, "supportsNonImageAttachments")

\* C12: with image attachments only, the models the App keeps selected and
\* the models generateResponses keeps are exactly the requested registry
\* models whose supportsImages is true.
C12_ImagesKeepIffFlag ==
  /\ (AfterAttachmentsChange /\ OnlyImages(currentAttachments)) =>
        /\ Range(selectedModels) = FlaggedIds(lastCall.selectedModels, "supportsImages")
        /\ \A i, j \in DOMAIN selectedModels : i < j =>
             \E k, l \in DOMAIN lastCall.selectedModels :
               /\ k < l
               /\ lastCall.selectedModels[k] = selectedModels[i]
               /\ lastCall.selectedModels[l] = selectedModels[j]
  /\ (AfterServiceFilter /\ OnlyImages(request.attachments)) =>
        /\ {compatibleModels[i].id : i \in DOMAIN compatibleModels}
             = FlaggedIds(request.models, "supportsImages")
        /\ pc = "rejected" <=> FlaggedIds(request.models, "supportsImages") = {}

\* an image made the App drop a selected model, and generateResponses then
\* kept every model of the filtered selection
C12_Witness ==
  /\ pc = "building"
  /\ AfterAttachmentsChange
  /\ OnlyImages(request.attachments)
  /\ Len(selectedModels) < Len(lastCall.selectedModels)
  /\ Len(compatibleModels) = Len(selectedModels)
  /\ Len(compatibleModels) > 0

\* C13: with no attachment, handleAttachmentsChange leaves the selection as
\* it was, and generateResponses dispatches to every requested registry
\* model.
C13_NoAttachmentsNoFilter ==
  /\ (AfterAttachmentsChange /\ currentAttachments = <<>>) =>
        selectedModels = lastCall.selectedModels
  /\ (AfterServiceFilter /\ request.attachments = <<>>) =>
        /\ {compatibleModels[i].id : i \in DOMAIN compatibleModels}
             = RegistryIds \cap Range(request.models)
        /\ pc = "rejected" <=> RegistryIds \cap Range(request.models) = {}

\* the attachments were cleared with codestral-2508 selected, and the call
\* kept it
C13_Witness ==
  /\ pc = "building"
  /\ AfterAttachmentsChange
  /\ request.attachments = <<>>
  /\ \E i \in DOMAIN selectedModels : selectedModels[i] = "codestral-2508"
  /\ \E i \in DOMAIN compatibleModels : compatibleModels[i].id = "codestral-2508"

\* the service has its list of models to dispatch to
HasCompatibleModels == pc \in {"building", "dispatched", "resolved"}

\* the results follow the models dispatched to, position by position
ResultsFollowDispatch ==
  pc = "resolved" =>
    \A i \in DOMAIN compatibleModels : returned[i].modelId = compatibleModels[i].id

\* C14 (as claimed): two models dispatched to stand in the order in which
\* their ids stand in request.models, and the results follow them.
C14_CallerOrder ==
  /\ HasCompatibleModels =>
       \A i, j \in DOMAIN compatibleModels : i < j =>
         \E k, l \in DOMAIN request.models :
           /\ k < l
           /\ request.models[k] = compatibleModels[i].id
           /\ request.models[l] = compatibleModels[j].id
  /\ ResultsFollowDispatch

\* C14 (amended): two models dispatched to stand in the order in which they
\* stand in AVAILABLE_MODELS, whatever the order of request.models, and the
\* results follow them.
C14_RegistryOrder ==
  /\ HasCompatibleModels =>
       \A i, j \in DOMAIN compatibleModels : i < j =>
         \E k, l \in DOMAIN AVAILABLE_MODELS :
           /\ k < l
           /\ AVAILABLE_MODELS[k].id = compatibleModels[i].id
           /\ AVAILABLE_MODELS[l].id = compatibleModels[j].id
  /\ ResultsFollowDispatch

\* a resolved call that asked for grok-4 before claude-opus-4.1 and got
\* claude-opus-4.1's result first
C14_Witness ==
  /\ pc = "resolved"
  /\ request.models = <<"grok-4", "claude-opus-4.1">>
  /\ returned[1].modelId = "claude-opus-4.1"
  /\ returned[2].modelId = "grok-4"

\* the four rules of securityManager.validateApiKey, with the entry each one
\* reports
ValidatorRuleBroken(key, entry) ==
  CASE entry = "Invalid API key format" ->
         ~(Len(key) >= 9 /\ SubSeq(key, 1, 9) = <<"s","k","-","o","r","-","v","1","-">>)
    [] entry = "API key too short" -> Len(key) < 25
    [] entry = "API key too long" -> Len(key) > 200
    [] entry = "API key contains invalid characters" ->
         \/ key = <<>>
         \/ \E i \in DOMAIN key :
              key[i] \notin LowerCase \cup UpperCase \cup Digits \cup {"-", "_"}

ValidatorEntries ==
  {"Invalid API key format", "API key too short", "API key too long",
   "API key contains invalid characters"}

OneEntryPerBrokenRule(key, errors) ==
  /\ \A entry \in ValidatorEntries :
       Cardinality({i \in DOMAIN errors : errors[i] = entry})
         = IF ValidatorRuleBroken(key, entry) THEN 1 ELSE 0
  /\ \A i \in DOMAIN errors : errors[i] \in ValidatorEntries

\* C15 (as claimed): for every key the list returned has exactly one entry
\* per rule the key violates, and isValid is true exactly when it is empty.
C15_EveryRuleReported ==
  validation.called =>
    /\ OneEntryPerBrokenRule(apiKey, validation.errors)
    /\ validation.isValid <=> validation.errors = <<>>

\* C15 (amended): the same for every key that is not the empty string; the
\* empty string gets the single entry 'API key is required'.
C15_EveryRuleReportedUnlessEmpty ==
  validation.called =>
    /\ apiKey # <<>> => OneEntryPerBrokenRule(apiKey, validation.errors)
    /\ apiKey = <<>> => validation.errors = <<"API key is required">>
    /\ validation.isValid <=> validation.errors = <<>>

\* a key that breaks three rules at once and got the three entries
C15_Witness ==
  /\ validation.called
  /\ apiKey # <<>>
  /\ Len(validation.errors) = 3
  /\ ~validation.isValid

\* C16: a call that has dispatched resolves in the end, with a result for
\* every model it dispatched to and every promise resolved (so every timer
\* has run).
C16_DispatchedResolves ==
  (pc = "dispatched") ~>
       (/\ pc = "resolved"
        /\ Len(returned) = Len(compatibleModels)
        /\ \A i \in DOMAIN returned :
             /\ returned[i] # NoResult
             /\ returned[i].modelId = compatibleModels[i].id
             /\ promises[i] = "settled")

\* the second timer still waits while the first call has already failed
C16_Witness ==
  /\ pc = "dispatched"
  /\ Len(promises) = 2
  /\ promises[1] = "settled"
  /\ results[1].hasError
  /\ promises[2] = "scheduled"

\* C17: a position has at most one fetch call: one once its timer has run
\* with a credential that passes the check made before transmission, none
\* with a credential that does not; a position whose timer has run gets no
\* further call and no new timer, whatever the outcomes; so the calls of a
\* request are never more than its compatible models.
C17_OneCallPerModel ==
  /\ [](LET calls == IF KeyRuleViolated(StrippedKey(request.apiKey)) THEN 0 ELSE 1
        IN  /\ \A i \in DOMAIN fetches :
                 /\ Len(fetches[i]) <= 1
                 /\ promises[i] # "scheduled" => Len(fetches[i]) = calls
                 /\ promises[i] = "scheduled" => fetches[i] = <<>>
            /\ Cardinality({i \in DOMAIN fetches : fetches[i] # <<>>})
                 <= Cardinality(CompatibleIds(request)))
  /\ [][\A i \in DOMAIN promises :
          promises[i] # "scheduled"
            => /\ promises'[i] # "scheduled"
               /\ fetches'[i] = fetches[i]
               /\ delays'[i] = delays[i]]_vars

\* both models got their one call although the first call failed before the
\* second was started
C17_Witness ==
  /\ pc = "resolved"
  /\ Len(fetches) = 2
  /\ Len(fetches[1]) = 1
  /\ Len(fetches[2]) = 1
  /\ returned[1].hasError
  /\ settledOrder = <<1, 2>>
  /\ elapsed = 1000

\* createMessages has returned
MessagesBuilt == pc = "built"

\* the text part's first piece: the prompt as given
PromptPiece == [kind |-> "prompt", name |-> <<>>,
                payload |-> [what |-> request.prompt, chars |-> 0, marker |-> FALSE]]

\* C18: createMessages returns two messages, the system message and then one
\* user message; without attachments the user message's content is the
\* prompt as a string; with attachments it is a list of parts that starts
\* with the text part, which no other part is.
C18_TwoMessages ==
  MessagesBuilt =>
    /\ Len(messages) = 2
    /\ messages[1] = SystemMessage
    /\ messages[2].role = "user"
    /\ request.attachments = <<>> =>
         messages[2].content = << [type |-> "string", text |-> <<PromptPiece>>, url |-> <<>>] >>
    /\ request.attachments # <<>> =>
         /\ messages[2].content[1].type = "text"
         /\ messages[2].content[1].text[1] = PromptPiece
         /\ \A k \in DOMAIN messages[2].content : k > 1 => messages[2].content[k].type # "text"

\* a request with an image and a file: a text part followed by an image part
C18_Witness ==
  /\ MessagesBuilt
  /\ Len(request.attachments) = 2
  /\ Len(messages[2].content) = 2
  /\ Len(messages[2].content[1].text) = 2

\* the attachments of the request, each with the read made for it
AttachmentsWithReads ==
  [i \in DOMAIN request.attachments |->
     [name |-> request.attachments[i].name,
      type |-> request.attachments[i].type,
      hasFile |-> request.attachments[i].hasFile,
      read |-> fileReads[i]]]

ImageAttachments ==
  SelectSeq(AttachmentsWithReads, LAMBDA a : a.type = "image")

NonImageAttachments ==
  SelectSeq(AttachmentsWithReads, LAMBDA a : a.type # "image")

NonImageWithFile ==
  SelectSeq(AttachmentsWithReads, LAMBDA a : a.type # "image" /\ a.hasFile)

\* what follows the prompt in the text part, and what follows the text part
AppendedPieces == Tail(messages[2].content[1].text)
ImagePartsSent == Tail(messages[2].content)

ImagePartsInOrder ==
  /\ Len(ImagePartsSent) = Len(ImageAttachments)
  /\ \A k \in DOMAIN ImagePartsSent :
       /\ ImagePartsSent[k].type = "image_url"
       /\ ImagePartsSent[k].url = ImageAttachments[k].name

\* C19 (as claimed): with attachments, the parts after the text part are the
\* images in the caller's order, and the text part carries one delimited
\* block per non-image attachment, in the caller's order.
C19_BlockPerNonImage ==
  (MessagesBuilt /\ request.attachments # <<>>) =>
    /\ ImagePartsInOrder
    /\ Len(AppendedPieces) = Len(NonImageAttachments)
    /\ \A k \in DOMAIN AppendedPieces :
         /\ AppendedPieces[k].kind = "block"
         /\ AppendedPieces[k].name = NonImageAttachments[k].name

\* C19 (amended): with attachments, the parts after the text part are the
\* images in the caller's order, and the text part carries one piece per
\* non-image attachment that has its file, in the caller's order: the
\* 'Unable to read file content' note when the read of its text failed, the
\* delimited block otherwise.
C19_PiecePerNonImageWithFile ==
  (MessagesBuilt /\ request.attachments # <<>>) =>
    /\ ImagePartsInOrder
    /\ Len(AppendedPieces) = Len(NonImageWithFile)
    /\ \A k \in DOMAIN AppendedPieces :
         /\ AppendedPieces[k].name = NonImageWithFile[k].name
         /\ AppendedPieces[k].kind =
              IF NonImageWithFile[k].read = [ok |-> FALSE, length |-> 0]
                THEN "unreadable" ELSE "block"

\* two files between two images: a text whose read failed, then a PDF
C19_Witness ==
  /\ MessagesBuilt
  /\ Len(request.attachments) = 3
  /\ Len(ImagePartsSent) = 1
  /\ Len(AppendedPieces) = 2
  /\ AppendedPieces[1].kind = "unreadable"
  /\ AppendedPieces[2].kind = "block"
  /\ request.attachments[2].type = "image"

\* C20: a text read whole is embedded as its first 10,000 characters and the
\* truncation marker when it is longer than 10,000 characters, and as it is,
\* without the marker, when it is not.
C20_TruncatesOver10000 ==
  (MessagesBuilt /\ request.attachments # <<>>) =>
    \A k \in DOMAIN NonImageWithFile :
      NonImageWithFile[k].read.length >= 0 /\ NonImageWithFile[k].read.ok =>
        /\ k \in DOMAIN AppendedPieces
        /\ AppendedPieces[k].payload.what = "file-text"
        /\ IF NonImageWithFile[k].read.length > 10000
             THEN /\ AppendedPieces[k].payload.chars = 10000
                  /\ AppendedPieces[k].payload.marker
             ELSE /\ AppendedPieces[k].payload.chars = NonImageWithFile[k].read.length
                  /\ ~AppendedPieces[k].payload.marker

\* a text of exactly 10,000 characters embedded whole beside one of 10,001
\* characters cut to 10,000
C20_Witness ==
  /\ MessagesBuilt
  /\ \E k \in DOMAIN AppendedPieces :
       /\ NonImageWithFile[k].read = [ok |-> TRUE, length |-> 10000]
       /\ AppendedPieces[k].payload = [what |-> "file-text", chars |-> 10000, marker |-> FALSE]
  /\ \E k \in DOMAIN AppendedPieces :
       /\ NonImageWithFile[k].read = [ok |-> TRUE, length |-> 10001]
       /\ AppendedPieces[k].payload = [what |-> "file-text", chars |-> 10000, marker |-> TRUE]

\* the category test of the claim: a text-like category or a plain-text
\* extension
TextLike(a) ==
  \/ a.type \in {"document", "data", "file"}
  \/ Extension(a.name) \in plainTextExtensions

NotRead == [ok |-> FALSE, length |-> -1]

\* C21 (as claimed): every non-image attachment has its payload in the text
\* part: the PDF placeholder for a pdf, which is not read; the decoded text
\* for a text-like attachment; the 'cannot be read as text' placeholder for
\* any other, which is not read.
C21_PayloadByCategory ==
  (MessagesBuilt /\ request.attachments # <<>>) =>
    /\ Len(AppendedPieces) = Len(NonImageAttachments)
    /\ \A k \in DOMAIN AppendedPieces :
         LET a == NonImageAttachments[k]
             payload == AppendedPieces[k].payload
         IN  /\ a.type = "pdf" =>
                  payload.what = "pdf-placeholder" /\ a.read = NotRead
             /\ (a.type # "pdf" /\ TextLike(a)) => payload.what = "file-text"
             /\ (a.type # "pdf" /\ ~TextLike(a)) =>
                  payload.what = "binary-placeholder" /\ a.read = NotRead

\* C21 (amended): the same for every non-image attachment that has its file,
\* a text-like one being read and giving its decoded text when the read
\* succeeds and the 'Unable to read file content' note when it fails.
C21_PayloadByCategoryWithFile ==
  (MessagesBuilt /\ request.attachments # <<>>) =>
    /\ Len(AppendedPieces) = Len(NonImageWithFile)
    /\ \A k \in DOMAIN AppendedPieces :
         LET a == NonImageWithFile[k]
             payload == AppendedPieces[k].payload
         IN  /\ a.type = "pdf" =>
                  payload.what = "pdf-placeholder" /\ a.read = NotRead
             /\ (a.type # "pdf" /\ TextLike(a)) =>
                  /\ a.read # NotRead
                  /\ a.read.ok => payload.what = "file-text"
                  /\ ~a.read.ok => AppendedPieces[k].kind = "unreadable"
             /\ (a.type # "pdf" /\ ~TextLike(a)) =>
                  payload.what = "binary-placeholder" /\ a.read = NotRead

\* a PDF, a video and a file of unknown extension: two placeholders and a
\* text that was read
C21_Witness ==
  /\ MessagesBuilt
  /\ Len(AppendedPieces) = 3
  /\ AppendedPieces[1].payload.what = "pdf-placeholder"
  /\ AppendedPieces[2].payload.what = "binary-placeholder"
  /\ AppendedPieces[3].payload.what = "file-text"
  /\ request.attachments[3].type = "file"

\* C22 (as claimed): a response that is not a success gives an error result
\* with empty content, whose message is the body's error.message when the
\* body carries one, and 'HTTP <status>: <statusText>' when the message is
\* absent or the body cannot be parsed.
C22_HttpErrorMessage ==
  \A i \in DOMAIN results :
    (promises[i] = "settled" /\ outcomes[i].kind = "response" /\ ~outcomes[i].ok) =>
      LET body == outcomes[i]
          carried == /\ body.parse = "object"
                     /\ body.errorMessage.t = "string"
                     /\ body.errorMessage.s # ""
          absent == \/ body.parse # "object"
                    \/ body.errorMessage.t = "undefined"
      IN  /\ results[i].hasError
          /\ results[i].content = [t |-> "string", s |-> ""]
          /\ carried => results[i].error = body.errorMessage.s
          /\ absent => results[i].error = "HTTP 429: Too Many Requests"

\* the fetch calls made so far, as pairs of position and call number
FetchCalls == {<<i, k>> \in (DOMAIN fetches) \X (1..1) : k \in DOMAIN fetches[i]}

\* C24: every fetch call carries in its Authorization header a credential
\* that starts with 'sk-or-v1-', is longer than 20 and shorter than 200
\* characters and holds letters, digits and '-' only.
C24_SentKeyPassesRules ==
  \A i \in DOMAIN fetches : \A k \in DOMAIN fetches[i] :
     ~KeyRuleViolated(fetches[i][k].authorization)

\* a call was made with the stripped form of a key that itself breaks the
\* rules (the padded key)
C24_Witness ==
  /\ FetchCalls # {}
  /\ KeyRuleViolated(request.apiKey)
  /\ \A c \in FetchCalls :
       /\ fetches[c[1]][c[2]].authorization = StrippedKey(request.apiKey)
       /\ fetches[c[1]][c[2]].authorization # request.apiKey

\* C29: the fetch calls of one generateResponses call all carry the same
\* messages, and the list built by createMessages is the same list after
\* each step of the dispatched call, the steps that sanitize it for one
\* model's fetch call included.
C29_SharedMessagesUnchanged ==
  /\ [](\A c \in FetchCalls : \A d \in FetchCalls :
          fetches[c[1]][c[2]].messages = fetches[d[1]][d[2]].messages)
  /\ [][pc = "dispatched" => messages' = messages]_vars

\* two models were called, the second after the first, with messages that
\* sanitizing had changed, and the list built is still as it was built
C29_Witness ==
  /\ pc = "resolved"
  /\ Len(fetches) = 2
  /\ Len(fetches[1]) = 1
  /\ Len(fetches[2]) = 1
  /\ fetches[1][1].messages # messages
  /\ fetches[2][1].messages = fetches[1][1].messages
  /\ messages[2].content[1].text[1].payload.what = request.prompt

\* the parts of the user message built, and of the one handed to fetch
BuiltParts == messages[2].content
SentParts(c) == fetches[c[1]][c[2]].messages[2].content

\* the characters of the prompt in a part's text
PromptText(part) == part.text[1].payload.what

\* the pattern of an inline event handler, of a javascript: scheme or of a
\* script block is found in the text, in any case of its letters
HoldsMarkup(text) ==
  \E i \in DOMAIN text :
     LET rest == SubSeq(text, i, Len(text))
     IN  SchemeMatch(rest) > 0 \/ HandlerMatch(rest) > 0 \/ ScriptMatch(rest) > 0

C30_SanitizeIdempotent ==
  \A c \in FetchCalls :
     LET sent == PromptText(SentParts(c)[1])
     IN  /\ sanitizeText(sent) = sent
         /\ ~HoldsMarkup(sent)

\* C25: a key that securityManager.validateApiKey has accepted passes, once
\* stripped, the rules of the transmission check, and no result shown for a
\* submission has the error 'Invalid API key format'.
C25_GateImpliesTransmissionCheck ==
  /\ (validation.called /\ validation.isValid)
       => ~KeyRuleViolated(StrippedKey(apiKey))
  /\ \A i \in DOMAIN responses : ~InvalidKeyResult(responses[i])

\* C26: a 5-second timer that runs changes the message shown only when that
\* message is an auto-deselect note; a message set by a submission is not
\* cleared by it.
C26_TimerClearsOnlyNote ==
  [][errorTimers' < errorTimers => (error' = error \/ error.kind = "Note")]_vars

\* C27: isLoading is true exactly while a generateResponses call that
\* handleSubmitPrompt started has not yet handed its results or its error
\* back to the handler.
C27_LoadingIffPending == isLoading <=> pc # "idle"

\* a submission whose call threw has ended: its message is shown and
\* isLoading is false again
C27_Witness ==
  /\ ~isLoading
  /\ pc = "idle"
  /\ lastCall.handler = "handleSubmitPrompt"
  /\ error.kind = "Error"
  /\ error.reason = "No models support the requested features (image processing)"

\* the messages of the three checks of handleSubmitPrompt
RejectionMessages ==
  {"Please enter your OpenRouter API key", "Invalid API key",
   "Please select at least one model"}

====
